---- MODULE Spec2Model ----
(***************************************************************************)
(* Long-context decomposition pipeline of lctx-agent:                      *)
(*   ContextFileManagerTool  (tools/context_tool.py)                       *)
(*   MetaPromptTool          (tools/meta_tool.py)                          *)
(*   TextChunkTool           (tools/chunk_tool.py)                         *)
(*   EnhancedChunkTool       (tools/enhanced_chunk_tool.py)                *)
(*   LongContextAgent        (agent/long_context_agent.py)                 *)
(*                                                                         *)
(* A Python str is a sequence of tokens.  A token is a TLA+ string: one    *)
(* character for free text, or a whole fixed phrase of a template (a       *)
(* marker such as "**Analysis Result:**"), so that Len(token) is its       *)
(* length in characters.  None is the empty sequence <<>> and a present    *)
(* value v is <<v>>.  The file system is POSIX (os.linesep = "\n").        *)
(***************************************************************************)
EXTENDS Integers, Sequences, FiniteSets, TLC

VARIABLES
    phase,              \* "created" | "running" | "ended": the agent's task
    temp_dir_exists,    \* LongContextAgent.temp_dir exists on disk
    context_file_path,  \* LongContextAgent.context_file_path: <<>> or <<path>>
    files,              \* the files on disk: path -> bytes
    saved,              \* history: text of the latest successful save of the task
    saves,              \* history: successful saves of the task, up to SavesCap
    last,               \* the latest context_file_manager call and its result
    has_client,         \* EnhancedChunkTool.llm_client is not None
    run,                \* the current enhanced_chunk_tool invocation
    llm_response,       \* the latest response of the model to the agent, judged
    direct,             \* the latest direct call of a tool method and its result
    runs                \* the enhanced_chunk_tool invocations in flight together

vars == <<phase, temp_dir_exists, context_file_path, files, saved, saves, last,
          has_client, run, llm_response, direct, runs>>

----------------------------------------------------------------------------
(* Bounds of the model *)

MaxTextLen == 2
MaxPlainLen == 6
MaxChunk == 3
SavesCap == 2

(* Program constants *)

DefaultChunkSize == 8000
DefaultOverlap == 200

----------------------------------------------------------------------------
(* Optional values and tool results *)

None == <<>>
Some(v) == <<v>>
IsNone(o) == o = <<>>
Val(o) == o[1]

OkResult(out) == [output |-> Some(out), error |-> None, error_code |-> 0]
ErrResult(msg, code) == [output |-> None, error |-> Some(msg), error_code |-> code]
IsOk(res) == IsNone(res.error)

----------------------------------------------------------------------------
(* Python str operations on token sequences *)

Min(a, b) == IF a < b THEN a ELSE b
Max(a, b) == IF a > b THEN a ELSE b

IsSpace(c) == c \in {" ", "\n", "\r", "\t"}

RECURSIVE LStrip(_)
LStrip(s) ==
    IF s = <<>> THEN <<>>
    ELSE IF IsSpace(Head(s)) THEN LStrip(Tail(s)) ELSE s

RECURSIVE RStrip(_)
RStrip(s) ==
    IF s = <<>> THEN <<>>
    ELSE IF IsSpace(s[Len(s)]) THEN RStrip(SubSeq(s, 1, Len(s) - 1)) ELSE s

Strip(s) == RStrip(LStrip(s))

\* str.split('\n'): the lines of s; ''.split('\n') is ['']
RECURSIVE SplitLines(_)
SplitLines(s) ==
    IF \A i \in 1..Len(s) : s[i] # "\n" THEN <<s>>
    ELSE LET i == CHOOSE k \in 1..Len(s) :
                      s[k] = "\n" /\ \A j \in 1..(k - 1) : s[j] # "\n"
         IN  <<SubSeq(s, 1, i - 1)>> \o SplitLines(SubSeq(s, i + 1, Len(s)))

\* '\n'.join(lines)
RECURSIVE JoinLines(_)
JoinLines(lines) ==
    IF lines = <<>> THEN <<>>
    ELSE IF Len(lines) = 1 THEN lines[1]
    ELSE lines[1] \o <<"\n">> \o JoinLines(Tail(lines))

\* sub in s
Contains(sub, s) ==
    \E i \in 0..(Len(s) - Len(sub)) : SubSeq(s, i + 1, i + Len(sub)) = sub

\* len(s), in characters
RECURSIVE StrLen(_)
StrLen(s) == IF s = <<>> THEN 0 ELSE Len(Head(s)) + StrLen(Tail(s))

\* s.count('\n')
RECURSIVE CountNewlines(_)
CountNewlines(s) ==
    IF s = <<>> THEN 0
    ELSE (IF Head(s) = "\n" THEN 1 ELSE 0) + CountNewlines(Tail(s))

\* the words counted as the runs between single blanks: len(s.split(' ')) - 1
\* on a text that starts and ends with a word
RECURSIVE WordCountSingleSpace(_)
WordCountSingleSpace(s) ==
    IF s = <<>> THEN 0
    ELSE IF Head(s) = " " THEN WordCountSingleSpace(Tail(s))
    ELSE IF Len(s) = 1 \/ s[2] = " " THEN 1 + WordCountSingleSpace(Tail(s))
    ELSE WordCountSingleSpace(Tail(s))

\* len(s.split()): the number of maximal runs of non-whitespace characters
RECURSIVE WordCount(_)
WordCount(s) ==
    IF s = <<>> THEN 0
    ELSE IF IsSpace(Head(s)) THEN WordCount(Tail(s))
    ELSE IF Len(s) = 1 \/ IsSpace(s[2]) THEN 1 + WordCount(Tail(s))
    ELSE WordCount(Tail(s))

\* f"{n:,}": decimal with thousands separators
RECURSIVE Comma(_)
Comma(n) ==
    IF n < 0 THEN "-" \o Comma(0 - n)
    ELSE IF n < 1000 THEN ToString(n)
    ELSE LET r == n % 1000
         IN  Comma(n \div 1000) \o "," \o
             (IF r < 10 THEN "00" ELSE IF r < 100 THEN "0" ELSE "") \o ToString(r)

----------------------------------------------------------------------------
(* Text files: open(path, 'w'|'r', encoding='utf-8') *)

\* "U" stands for one character outside ASCII, two bytes in UTF-8
MultiByte == {"U"}

\* str.encode('utf-8'): a two-byte character becomes two bytes
RECURSIVE Utf8Encode(_)
Utf8Encode(text) ==
    IF text = <<>> THEN <<>>
    ELSE (IF Head(text) \in MultiByte
          THEN <<Head(text) \o "#1", Head(text) \o "#2">>
          ELSE <<Head(text)>>) \o Utf8Encode(Tail(text))

IsLeadByte(b) == \E c \in MultiByte : b = c \o "#1"
IsContByte(b) == \E c \in MultiByte : b = c \o "#2"
CharOfLead(b) == CHOOSE c \in MultiByte : b = c \o "#1"

\* bytes.decode('utf-8') succeeds
RECURSIVE Utf8Valid(_)
Utf8Valid(bytes) ==
    IF bytes = <<>> THEN TRUE
    ELSE IF IsContByte(Head(bytes)) THEN FALSE
    ELSE IF IsLeadByte(Head(bytes))
         THEN Len(bytes) >= 2 /\ bytes[2] = CharOfLead(Head(bytes)) \o "#2"
              /\ Utf8Valid(Tail(Tail(bytes)))
    ELSE Utf8Valid(Tail(bytes))

\* bytes.decode('utf-8') of valid bytes
RECURSIVE Utf8Decode(_)
Utf8Decode(bytes) ==
    IF bytes = <<>> THEN <<>>
    ELSE IF IsLeadByte(Head(bytes))
         THEN <<CharOfLead(Head(bytes))>> \o Utf8Decode(Tail(Tail(bytes)))
    ELSE <<Head(bytes)>> \o Utf8Decode(Tail(bytes))

LineSep == <<"\n">>

\* text-mode write, newline=None: every '\n' is written as os.linesep
RECURSIVE TranslateOnWrite(_)
TranslateOnWrite(text) ==
    IF text = <<>> THEN <<>>
    ELSE (IF Head(text) = "\n" THEN LineSep ELSE <<Head(text)>>)
         \o TranslateOnWrite(Tail(text))

\* text-mode read, newline=None: '\r\n' and a lone '\r' are read as '\n'
RECURSIVE UniversalNewlines(_)
UniversalNewlines(text) ==
    IF text = <<>> THEN <<>>
    ELSE IF Head(text) = "\r"
         THEN <<"\n">> \o
              (IF Len(text) >= 2 /\ text[2] = "\n"
               THEN UniversalNewlines(Tail(Tail(text)))
               ELSE UniversalNewlines(Tail(text)))
    ELSE <<Head(text)>> \o UniversalNewlines(Tail(text))

\* with open(path, 'w', encoding='utf-8') as f: f.write(text)
WriteText(text) == Utf8Encode(TranslateOnWrite(text))

\* with open(path, 'r', encoding='utf-8') as f: f.read()
ReadText(bytes) == UniversalNewlines(Utf8Decode(bytes))

PathExists(path) == path \in DOMAIN files

----------------------------------------------------------------------------
(* ContextFileManagerTool *)

TempDir == "/tmp/long_context_0"

\* os.path.join(temp_dir, "context.txt")
ContextFile == TempDir \o "/context.txt"

NoCall ==
    [op |-> "none", context |-> None, chunk_size |-> None, overlap |-> None,
     result |-> OkResult(<<>>), total_size |-> 0, num_chunks |-> 0,
     boundaries |-> <<>>]

\* files with path holding bytes, every other file kept
FilesWith(path, bytes) ==
    [p \in (DOMAIN files) \cup {path} |-> IF p = path THEN bytes ELSE files[p]]

\* the report with the newlines counted as the lines
SaveReportNoLastLine(context) ==
    <<"Context saved successfully!", "\n",
      "File path: ", ContextFile, "\n",
      "Statistics:", "\n",
      "- File size: ", Comma(StrLen(context)), " characters", "\n",
      "- Lines: ", Comma(CountNewlines(context)), "\n",
      "- Words: ", Comma(WordCount(context)), "\n",
      "- Estimated tokens: ", Comma(StrLen(context) \div 4), " (rough estimate)",
      "\n", "\n",
      "The context file is now ready for chunk-based processing.">>

\* the f-string of _save_context
SaveReport(context) ==
    <<"Context saved successfully!", "\n",
      "File path: ", ContextFile, "\n",
      "Statistics:", "\n",
      "- File size: ", Comma(StrLen(context)), " characters", "\n",
      "- Lines: ", Comma(CountNewlines(context) + 1), "\n",
      "- Words: ", Comma(WordCount(context)), "\n",
      "- Estimated tokens: ", Comma(StrLen(context) \div 4), " (rough estimate)",
      "\n", "\n",
      "The context file is now ready for chunk-based processing.">>

\* what execute() returns when the handler raises
HandlerRaised(what) == ErrResult(<<"Error in context_file_manager: ">> \o what, 1)

SaveContextNoGuard(context) ==
    /\ phase = "running"
    /\ run.pc = "idle"
    /\ temp_dir_exists
    /\ LET text == IF IsNone(context) THEN <<>> ELSE Val(context)
       IN  /\ files' = FilesWith(ContextFile, WriteText(text))
           /\ context_file_path' = Some(ContextFile)
           /\ saved' = Some(text)
           /\ saves' = Min(saves + 1, SavesCap)
           /\ last' = [NoCall EXCEPT !.op = "save_context", !.context = context,
                                     !.result = OkResult(SaveReport(text))]
    /\ UNCHANGED <<phase, temp_dir_exists, has_client, llm_response, direct, runs, run>>

SaveContextAppend(context) ==
    /\ phase = "running"
    /\ run.pc = "idle"
    /\ temp_dir_exists
    /\ ~IsNone(context) /\ Val(context) # <<>>
    /\ files' = FilesWith(ContextFile,
                          (IF PathExists(ContextFile) THEN files[ContextFile] ELSE <<>>)
                          \o WriteText(Val(context)))
    /\ context_file_path' = Some(ContextFile)
    /\ saved' = context
    /\ saves' = Min(saves + 1, SavesCap)
    /\ last' = [NoCall EXCEPT !.op = "save_context", !.context = context,
                              !.result = OkResult(SaveReport(Val(context)))]
    /\ UNCHANGED <<phase, temp_dir_exists, has_client, llm_response, direct, runs, run>>

\* execute({"action": "save_context", "context": context})
SaveContext(context) ==
    /\ phase = "running"
    /\ run.pc = "idle"
    /\ IF IsNone(context) \/ Val(context) = <<>>
       THEN /\ last' = [NoCall EXCEPT !.op = "save_context", !.context = context,
                  !.result = ErrResult(
                      <<"Context text is required for save_context action">>, 1)]
            /\ UNCHANGED <<files, context_file_path, saved, saves>>
       ELSE IF ~temp_dir_exists
       THEN \* open() raises FileNotFoundError, execute() reports it
            /\ last' = [NoCall EXCEPT !.op = "save_context", !.context = context,
                  !.result = HandlerRaised(
                      <<"[Errno 2] No such file or directory: ", ContextFile>>)]
            /\ UNCHANGED <<files, context_file_path, saved, saves>>
       ELSE /\ files' = FilesWith(ContextFile, WriteText(Val(context)))
            /\ context_file_path' = Some(ContextFile)
            /\ saved' = context
            /\ saves' = Min(saves + 1, SavesCap)
            /\ last' = [NoCall EXCEPT !.op = "save_context", !.context = context,
                  !.result = OkResult(SaveReport(Val(context)))]
    /\ UNCHANGED <<phase, temp_dir_exists, has_client, llm_response, direct, runs, run>>

\* max(1, (total_size - overlap) // (chunk_size - overlap))
NumChunks(total_size, chunk_size, overlap) ==
    Max(1, (total_size - overlap) \div (chunk_size - overlap))

\* the loop with end = start + chunk_size, not cut at total_size
RECURSIVE ChunkBoundariesUncut(_, _, _, _, _)
ChunkBoundariesUncut(i, num_chunks, total_size, chunk_size, overlap) ==
    IF i >= num_chunks THEN <<>>
    ELSE LET start == i * (chunk_size - overlap)
             end == start + chunk_size
         IN  << <<start, end>> >> \o
             (IF end >= total_size THEN <<>>
              ELSE ChunkBoundariesUncut(i + 1, num_chunks, total_size,
                                        chunk_size, overlap))

\* the loop "for i in range(num_chunks)" from index i on
RECURSIVE ChunkBoundariesFrom(_, _, _, _, _)
ChunkBoundariesFrom(i, num_chunks, total_size, chunk_size, overlap) ==
    IF i >= num_chunks THEN <<>>
    ELSE LET start == i * (chunk_size - overlap)
             end == Min(start + chunk_size, total_size)
         IN  << <<start, end>> >> \o
             (IF end >= total_size THEN <<>>
              ELSE ChunkBoundariesFrom(i + 1, num_chunks, total_size,
                                       chunk_size, overlap))

ChunkBoundaries(total_size, chunk_size, overlap) ==
    ChunkBoundariesFrom(0, NumChunks(total_size, chunk_size, overlap),
                        total_size, chunk_size, overlap)

RECURSIVE BoundaryLines(_, _)
BoundaryLines(bs, i) ==
    IF i > Len(bs) THEN <<>>
    ELSE <<"\n", "Chunk ", ToString(i), ": ", ToString(bs[i][1]), ":",
           ToString(bs[i][2])>> \o BoundaryLines(bs, i + 1)

ChunkInfoReport(path, total_size, chunk_size, overlap) ==
    <<"Chunk Analysis:", "\n",
      "Context file: ", path, "\n",
      "Total size: ", Comma(total_size), " characters", "\n",
      "Chunk size: ", Comma(chunk_size), " characters", "\n",
      "Overlap: ", Comma(overlap), " characters  ", "\n",
      "Estimated chunks: ", ToString(NumChunks(total_size, chunk_size, overlap)),
      "\n", "\n",
      "Chunk boundaries (start:end):">>
    \o BoundaryLines(ChunkBoundaries(total_size, chunk_size, overlap), 1)

\* execute({"action": "get_chunk_info", "chunk_size": cs, "overlap": ov})
GetChunkInfo(cs, ov) ==
    /\ phase = "running"
    /\ run.pc = "idle"
    /\ LET chunk_size == IF IsNone(cs) THEN DefaultChunkSize ELSE Val(cs)
           overlap == IF IsNone(ov) THEN DefaultOverlap ELSE Val(ov)
           call == [NoCall EXCEPT !.op = "get_chunk_info",
                                  !.chunk_size = Some(chunk_size),
                                  !.overlap = Some(overlap)]
       IN  IF IsNone(context_file_path)
           THEN last' = [call EXCEPT !.result = ErrResult(
                    <<"No context file found. Please save context first using 'save_context' action.">>, 1)]
           ELSE IF ~PathExists(Val(context_file_path))
           THEN last' = [call EXCEPT !.result = ErrResult(
                    <<"Context file not found: ", Val(context_file_path)>>, 1)]
           ELSE LET content == ReadText(files[Val(context_file_path)])
                    total_size == StrLen(content)
                IN  IF chunk_size = overlap
                    THEN \* ZeroDivisionError, execute() reports it
                         last' = [call EXCEPT !.total_size = total_size,
                             !.result = HandlerRaised(
                                 <<"integer division or modulo by zero">>)]
                    ELSE last' = [call EXCEPT
                             !.total_size = total_size,
                             !.num_chunks = NumChunks(total_size, chunk_size, overlap),
                             !.boundaries =
                                 ChunkBoundaries(total_size, chunk_size, overlap),
                             !.result = OkResult(ChunkInfoReport(
                                 Val(context_file_path), total_size, chunk_size,
                                 overlap))]
    /\ UNCHANGED <<phase, temp_dir_exists, context_file_path, files, saved,
                   saves, has_client, llm_response, direct, runs, run>>

PlanReport(chunk_size, overlap) ==
    <<"Chunking Strategy Planning:", "\n", "\n",
      "**Recommended Settings:**", "\n",
      "- Chunk size: ", Comma(chunk_size), " characters (~",
      Comma(chunk_size \div 4), " tokens)", "\n",
      "- Overlap: ", Comma(overlap),
      " characters (to preserve context continuity)", "\n", "\n",
      "Use get_chunk_info action to see exact chunk boundaries before processing.">>

\* execute({"action": "plan_chunks", "chunk_size": cs, "overlap": ov})
PlanChunks(cs, ov) ==
    /\ phase = "running"
    /\ run.pc = "idle"
    /\ LET chunk_size == IF IsNone(cs) THEN DefaultChunkSize ELSE Val(cs)
           overlap == IF IsNone(ov) THEN DefaultOverlap ELSE Val(ov)
       IN  last' = [NoCall EXCEPT !.op = "plan_chunks",
                                  !.chunk_size = Some(chunk_size),
                                  !.overlap = Some(overlap),
                                  !.result = OkResult(PlanReport(chunk_size, overlap))]
    /\ UNCHANGED <<phase, temp_dir_exists, context_file_path, files, saved,
                   saves, has_client, llm_response, direct, runs, run>>

----------------------------------------------------------------------------
(* Lines and markers of the tools' reports *)

Range(s) == {s[i] : i \in 1..Len(s)}

MinOf(S) == CHOOSE m \in S : \A n \in S : m <= n

EnhancedMarker == "Enhanced Prompt Generated Successfully:"
Separator == "---"
AnalysisMarker == "**Analysis Result:**"
ResultTitle == "**Chunk Processing Result**"
StatusMarker == "**Processing Status:**"
TokensMarker == "**Tokens Used:**"

\* the tokens that begin with "---", with "**" and with "Enhanced Prompt"
DashTokens == {Separator}
StarTokens ==
    {AnalysisMarker, ResultTitle, StatusMarker, TokensMarker, "**Chunk Info:** ",
     "**Query:** ", "**Chunk Size:** ", "**Chunk Analysis Result**", "**Chunk:** ",
     "**Size:** ", "**Analysis:**", "**Status:** Processing complete"}
EnhancedPromptTokens == {EnhancedMarker, "Enhanced Prompt: "}

\* line.startswith(prefix), prefix given by the tokens that begin with it
StartsWith(line, prefixTokens) == line # <<>> /\ Head(line) \in prefixTokens

\* marker in line
HasMarker(line, marker) == marker \in Range(line)

----------------------------------------------------------------------------
(* The model behind llm_client.chat(): it raises, returns no response, or   *)
(* returns a response with some content                                    *)

LLMRaises == [kind |-> "raises", content |-> <<>>]
LLMNoResponse == [kind |-> "none", content |-> <<>>]
LLMContent(c) == [kind |-> "content", content |-> c]

\* not response or not response.content
NoContent(resp) == resp.kind = "none" \/ resp.content = <<>>

ExceptionText == "connection reset"

----------------------------------------------------------------------------
(* MetaPromptTool *)

MetaReport(simple_prompt, enhanced_prompt) ==
    <<EnhancedMarker, "\n", "\n">> \o enhanced_prompt \o
    <<"\n", "\n", Separator, "\n",
      "Optimization Summary:", "\n",
      "- Original prompt length: ", ToString(StrLen(simple_prompt)),
      " characters  ", "\n",
      "- Enhanced prompt length: ", ToString(StrLen(enhanced_prompt)),
      " characters", "\n",
      "- Optimized for chunk-based processing: Yes", "\n",
      "- CoT complexity reduction: Applied">>

\* MetaPromptTool.execute: its result, the model calls it issued and the
\* enhanced prompt it built
\* execute with the client guard ahead of the simple_prompt guard
MetaExecuteClientFirst(simple_prompt, task_context, client, resp) ==
    IF ~client
    THEN [result |-> ErrResult(<<"LLM client not available for meta_prompt_tool">>, 1),
          model_calls |-> 0, enhanced |-> None]
    ELSE IF IsNone(simple_prompt) \/ Val(simple_prompt) = <<>>
    THEN [result |-> ErrResult(<<"simple_prompt is required">>, 1),
          model_calls |-> 0, enhanced |-> None]
    ELSE IF resp.kind = "raises"
    THEN [result |-> ErrResult(<<"Error generating meta prompt: ", ExceptionText>>, 1),
          model_calls |-> 1, enhanced |-> None]
    ELSE IF NoContent(resp)
    THEN [result |-> ErrResult(<<"Failed to generate enhanced prompt">>, 1),
          model_calls |-> 1, enhanced |-> None]
    ELSE [result |-> OkResult(MetaReport(Val(simple_prompt), Strip(resp.content))),
          model_calls |-> 1, enhanced |-> Some(Strip(resp.content))]

\* MetaPromptTool.execute: its result, the model calls it issued and the
\* enhanced prompt it produced
MetaExecute(simple_prompt, task_context, client, resp) ==
    IF IsNone(simple_prompt) \/ Val(simple_prompt) = <<>>
    THEN [result |-> ErrResult(<<"simple_prompt is required">>, 1),
          model_calls |-> 0, enhanced |-> None]
    ELSE IF ~client
    THEN [result |-> ErrResult(<<"LLM client not available for meta_prompt_tool">>, 1),
          model_calls |-> 0, enhanced |-> None]
    ELSE IF resp.kind = "raises"
    THEN [result |-> ErrResult(<<"Error generating meta prompt: ", ExceptionText>>, 1),
          model_calls |-> 1, enhanced |-> None]
    ELSE IF NoContent(resp)
    THEN [result |-> ErrResult(<<"Failed to generate enhanced prompt">>, 1),
          model_calls |-> 1, enhanced |-> None]
    ELSE [result |-> OkResult(MetaReport(Val(simple_prompt), Strip(resp.content))),
          model_calls |-> 1, enhanced |-> Some(Strip(resp.content))]

----------------------------------------------------------------------------
(* TextChunkTool *)

\* f"{v}" of an argument that may be None
Fmt(o) == IF IsNone(o) THEN "None" ELSE ToString(Val(o))

\* f"chunk_{start_pos}_{end_pos}"
DefaultChunkId(start_pos, end_pos) ==
    <<"chunk_", Fmt(start_pos), "_", Fmt(end_pos)>>

\* not all([file_path, start_pos, end_pos, query, prompt]): position 0 is
\* taken for an absent one
MissingRequiredByTruth(file_path, start_pos, end_pos, query, prompt) ==
    \/ IsNone(file_path) \/ Val(file_path) = ""
    \/ IsNone(start_pos) \/ Val(start_pos) = 0
    \/ IsNone(end_pos) \/ Val(end_pos) = 0
    \/ IsNone(query) \/ Val(query) = <<>>
    \/ IsNone(prompt) \/ Val(prompt) = <<>>

\* not all([file_path, isinstance(start_pos, int), isinstance(end_pos, int),
\*          query, prompt])
MissingRequired(file_path, start_pos, end_pos, query, prompt) ==
    \/ IsNone(file_path) \/ Val(file_path) = ""
    \/ IsNone(start_pos)
    \/ IsNone(end_pos)
    \/ IsNone(query) \/ Val(query) = <<>>
    \/ IsNone(prompt) \/ Val(prompt) = <<>>

\* the bytes of the file from byte offset start on: f.seek(start)
BytesFrom(bytes, start) == SubSeq(bytes, start + 1, Len(bytes))

\* f.read(n): the first n characters
FirstChars(text, n) == SubSeq(text, 1, Min(n, Len(text)))

ChunkResultReport(chunk_id, start_pos, end_pos, query, chunk_text, content) ==
    <<ResultTitle, "\n", "\n", "**Chunk Info:** ">> \o chunk_id \o
    <<" (position ", ToString(start_pos), ":", ToString(end_pos), ")", "\n",
      "**Query:** ">> \o query \o
    <<"\n", "**Chunk Size:** ", Comma(StrLen(chunk_text)), " characters", "\n", "\n",
      AnalysisMarker, "\n">> \o Strip(content) \o
    <<"\n", "\n", Separator, "\n",
      StatusMarker, " Complete", "\n",
      TokensMarker, " ~", ToString(StrLen(chunk_text) \div 4), " input + ~",
      ToString(StrLen(content) \div 4), " output">>

ChunkFailed(msg, calls) ==
    [result |-> ErrResult(msg, 1), model_calls |-> calls, chunk_text |-> None,
     content |-> None]

\* TextChunkTool.execute: its result, the model calls it issued, the chunk
\* text it read and the content the model returned
ChunkExecute(file_path, start_pos, end_pos, query, enhanced_prompt, chunk_id, client, resp) ==
    IF MissingRequired(file_path, start_pos, end_pos, query, enhanced_prompt)
    THEN ChunkFailed(<<"Required parameters: file_path, start_pos, end_pos, query, enhanced_prompt">>, 0)
    ELSE IF Val(start_pos) < 0 \/ Val(end_pos) <= Val(start_pos)
    THEN ChunkFailed(<<"Invalid position range: start_pos must be >= 0 and end_pos must be > start_pos">>, 0)
    ELSE IF ~client
    THEN ChunkFailed(<<"LLM client not available for text_chunk_tool">>, 0)
    ELSE IF ~PathExists(Val(file_path))
    THEN ChunkFailed(<<"File not found: ", Val(file_path)>>, 0)
    ELSE LET rest == BytesFrom(files[Val(file_path)], Val(start_pos))
         IN  IF ~Utf8Valid(rest)
             THEN \* UnicodeDecodeError, reported by the except clause
                  ChunkFailed(<<"Error processing text chunk: ",
                                "'utf-8' codec can't decode byte">>, 0)
             ELSE LET chunk_text == FirstChars(ReadText(rest),
                                               Val(end_pos) - Val(start_pos))
                  IN  IF Strip(chunk_text) = <<>>
                      THEN ChunkFailed(<<"No content found in range ",
                                         ToString(Val(start_pos)), ":",
                                         ToString(Val(end_pos))>>, 0)
                      ELSE IF resp.kind = "raises"
                      THEN [ChunkFailed(<<"Error processing text chunk: ",
                                          ExceptionText>>, 1)
                            EXCEPT !.chunk_text = Some(chunk_text)]
                      ELSE IF NoContent(resp)
                      THEN [ChunkFailed(<<"Failed to process text chunk">>, 1)
                            EXCEPT !.chunk_text = Some(chunk_text)]
                      ELSE [result |-> OkResult(ChunkResultReport(
                                chunk_id, Val(start_pos), Val(end_pos), Val(query),
                                chunk_text, resp.content)),
                            model_calls |-> 1,
                            chunk_text |-> Some(chunk_text),
                            content |-> Some(resp.content)]

----------------------------------------------------------------------------
(* EnhancedChunkTool *)

MetadataLines == 5

\* "for line in lines[from:]: if line.strip() == '---': break", the lines kept
RECURSIVE TakeUntilSeparator(_, _)
TakeUntilSeparator(lines, from) ==
    IF from > Len(lines) THEN <<>>
    ELSE IF Strip(lines[from]) = <<Separator>> THEN <<>>
    ELSE <<lines[from]>> \o TakeUntilSeparator(lines, from + 1)

\* the extraction without its fallbacks: nothing when the marker is absent
ExtractMarkedOnly(meta_output) ==
    LET lines == SplitLines(meta_output)
        marked == {i \in 1..Len(lines) : HasMarker(lines[i], EnhancedMarker)}
    IN  IF marked # {}
        THEN Strip(JoinLines(TakeUntilSeparator(lines, MinOf(marked) + 2)))
        ELSE <<>>

\* _extract_enhanced_prompt(meta_output)
ExtractEnhancedPrompt(meta_output) ==
    LET lines == SplitLines(meta_output)
        marked == {i \in 1..Len(lines) : HasMarker(lines[i], EnhancedMarker)}
        other == {i \in 1..Len(lines) :
                     /\ Strip(lines[i]) # <<>>
                     /\ ~StartsWith(lines[i], EnhancedPromptTokens)
                     /\ ~StartsWith(lines[i], DashTokens)}
    IN  IF marked # {}
        THEN Strip(JoinLines(TakeUntilSeparator(lines, MinOf(marked) + 2)))
        ELSE IF other # {}
        THEN Strip(JoinLines(TakeUntilSeparator(lines, MinOf(other))))
        ELSE Strip(meta_output)

\* only a separator line ends the analysis section
EndsAnalysisAtSeparator(line) == StartsWith(line, DashTokens)

\* the line ends the analysis section
EndsAnalysis(line) ==
    \/ StartsWith(line, DashTokens)
    \/ HasMarker(line, StatusMarker)
    \/ HasMarker(line, TokensMarker)

RECURSIVE TakeUntilMetadata(_, _)
TakeUntilMetadata(lines, from) ==
    IF from > Len(lines) THEN <<>>
    ELSE IF EndsAnalysis(lines[from]) THEN <<>>
    ELSE <<lines[from]>> \o TakeUntilMetadata(lines, from + 1)

\* the clean result built around the analysis
CleanResult(analysis_content, chunk_id, start_pos, end_pos) ==
    <<"**Chunk Analysis Result**", "\n", "\n", "**Chunk:** ">> \o chunk_id \o
    <<" (position ", ToString(start_pos), ":", ToString(end_pos), ")", "\n",
      "**Size:** ", Comma(end_pos - start_pos), " characters", "\n", "\n",
      "**Analysis:**", "\n">> \o analysis_content \o
    <<"\n", "\n", "**Status:** Processing complete">>

\* the line index (from 1) where _clean_chunk_output starts to read the analysis
ResultStart(lines) ==
    LET marked == {i \in 1..Len(lines) : HasMarker(lines[i], AnalysisMarker)}
        titled == {i \in 1..Len(lines) : HasMarker(lines[i], ResultTitle)}
    IN  IF marked # {} THEN MinOf(marked) + 1
        ELSE LET body == IF titled = {} THEN {}
                         ELSE {j \in MinOf(titled)..Len(lines) :
                                  /\ ~StartsWith(lines[j], StarTokens)
                                  /\ Strip(lines[j]) # <<>>}
             IN  IF body # {} THEN MinOf(body)
                 ELSE Min(MetadataLines, Len(lines)) + 1

\* the analysis body _clean_chunk_output keeps
AnalysisOf(chunk_output) ==
    LET lines == SplitLines(chunk_output)
    IN  Strip(JoinLines(TakeUntilMetadata(lines, ResultStart(lines))))

\* _clean_chunk_output(chunk_output, chunk_id, start_pos, end_pos)
CleanChunkOutput(chunk_output, chunk_id, start_pos, end_pos) ==
    CleanResult(AnalysisOf(chunk_output), chunk_id, start_pos, end_pos)

\* the clean result followed by the length of the enhanced prompt
FinalOutputWithPromptLength(enhanced_prompt, chunk_output, chunk_id, start_pos, end_pos) ==
    CleanChunkOutput(chunk_output, chunk_id, start_pos, end_pos) \o
    <<"\n", "- Enhanced prompt length: ", ToString(StrLen(enhanced_prompt)),
      " characters">>

FinalOutputWithPrompt(enhanced_prompt, chunk_output, chunk_id, start_pos, end_pos) ==
    <<"**Enhanced Prompt:** ">> \o enhanced_prompt \o <<"\n", "\n">> \o
    CleanChunkOutput(chunk_output, chunk_id, start_pos, end_pos)

\* the output of a successful run: the cleaned chunk output alone; the
\* enhanced prompt, in scope, is left out
FinalOutput(enhanced_prompt, chunk_output, chunk_id, start_pos, end_pos) ==
    CleanChunkOutput(chunk_output, chunk_id, start_pos, end_pos)

ToolsAlwaysAvailable(client) == TRUE

\* self.llm_client, self.meta_tool and self.chunk_tool are all set
ToolsAvailable(client) == client

InstructionOrSimplePrompt(meta_result, simple_prompt) ==
    IF IsOk(meta_result)
    THEN Some(ExtractEnhancedPrompt(Val(meta_result.output)))
    ELSE simple_prompt

\* the instruction for the chunk stage: none when meta_result.error is set,
\* else the enhanced prompt extracted from meta_result.output
InstructionFor(meta_result, simple_prompt) ==
    IF IsOk(meta_result)
    THEN Some(ExtractEnhancedPrompt(Val(meta_result.output)))
    ELSE None

\* the failure of the enhancement stage, as execute returns it
EnhancementFailure(meta_result) ==
    ErrResult(<<"Internal prompt enhancement failed: ">> \o Val(meta_result.error), 1)

\* the failure of the chunk stage returned without its error_code
ChunkFailureWithoutCode(chunk_result) ==
    ErrResult(<<"Internal chunk processing failed: ">> \o Val(chunk_result.error), 0)

\* the failure of the chunk stage, as execute returns it
ChunkFailure(chunk_result) ==
    ErrResult(<<"Internal chunk processing failed: ">> \o Val(chunk_result.error),
              chunk_result.error_code)

NoRun ==
    [pc |-> "idle", args |-> <<>>, chunk_id |-> <<>>,
     meta_calls |-> 0, chunk_calls |-> 0, model_calls |-> 0,
     meta_result |-> None, enhanced |-> None, instruction |-> None,
     chunk_result |-> None, chunk_text |-> None, content |-> None,
     result |-> None]

RunArgs(file_path, start_pos, end_pos, query, simple_prompt, task_context, chunk_id) ==
    [file_path |-> file_path, start_pos |-> start_pos, end_pos |-> end_pos,
     query |-> query, simple_prompt |-> simple_prompt,
     task_context |-> task_context, chunk_id |-> chunk_id]

Finished(r, res) == [r EXCEPT !.pc = "done", !.result = Some(res)]

\* a run of execute(arguments) at its first await, or finished by a guard
StartedRun(a) ==
    LET r == [NoRun EXCEPT
                 !.args = Some(a),
                 !.chunk_id = IF IsNone(a.chunk_id)
                              THEN DefaultChunkId(a.start_pos, a.end_pos)
                              ELSE Val(a.chunk_id)]
    IN  IF ~ToolsAvailable(has_client)
        THEN Finished(r, ErrResult(
                 <<"LLM client not available for enhanced_chunk_tool">>, 1))
        ELSE IF MissingRequired(a.file_path, a.start_pos, a.end_pos, a.query,
                                a.simple_prompt)
        THEN Finished(r, ErrResult(
                 <<"Required parameters: file_path, start_pos, end_pos, query, simple_prompt">>, 1))
        ELSE [r EXCEPT !.pc = "enhance"]

\* the run r after its enhancement stage, the model answering resp
EnhancedRun(r0, resp) ==
    LET a == Val(r0.args)
        m == MetaExecute(a.simple_prompt, a.task_context, has_client, resp)
        r == [r0 EXCEPT !.meta_calls = @ + 1,
                        !.model_calls = @ + m.model_calls,
                        !.meta_result = Some(m.result),
                        !.enhanced = m.enhanced]
        enhanced_prompt == InstructionFor(m.result, a.simple_prompt)
    IN  IF IsNone(enhanced_prompt)
        THEN Finished(r, EnhancementFailure(m.result))
        ELSE [r EXCEPT !.pc = "chunk", !.instruction = enhanced_prompt]

\* the run r after its chunk stage, the model answering resp
ChunkedRun(r0, resp) ==
    LET a == Val(r0.args)
        c == ChunkExecute(a.file_path, a.start_pos, a.end_pos, a.query,
                          r0.instruction, r0.chunk_id, has_client, resp)
        r == [r0 EXCEPT !.chunk_calls = @ + 1,
                        !.model_calls = @ + c.model_calls,
                        !.chunk_result = Some(c.result),
                        !.chunk_text = c.chunk_text,
                        !.content = c.content]
    IN  IF ~IsOk(c.result)
        THEN Finished(r, ChunkFailure(c.result))
        ELSE Finished(r, OkResult(FinalOutput(
                 Val(r0.instruction), Val(c.result.output), r0.chunk_id,
                 Val(a.start_pos), Val(a.end_pos))))

\* execute(arguments) up to the first await: the guards and the validation
RunStart(a) ==
    /\ phase = "running"
    /\ run.pc = "idle"
    /\ run' = StartedRun(a)
    /\ UNCHANGED <<phase, temp_dir_exists, context_file_path, files, saved, saves,
                   last, has_client, llm_response, direct, runs>>

\* await self.meta_tool.execute(meta_args), the check of its result and the
\* extraction of the enhanced prompt
EnhanceStep(resp) ==
    /\ run.pc = "enhance"
    /\ run' = EnhancedRun(run, resp)
    /\ UNCHANGED <<phase, temp_dir_exists, context_file_path, files, saved, saves,
                   last, has_client, llm_response, direct, runs>>

\* await self.chunk_tool.execute(chunk_args), the check of its result and the
\* cleaning of its output
ChunkStep(resp) ==
    /\ run.pc = "chunk"
    /\ run' = ChunkedRun(run, resp)
    /\ UNCHANGED <<phase, temp_dir_exists, context_file_path, files, saved, saves,
                   last, has_client, llm_response, direct, runs>>

\* the result is handed to the caller; the tool is ready for the next call
RunReturn ==
    /\ run.pc = "done"
    /\ run' = NoRun
    /\ UNCHANGED <<phase, temp_dir_exists, context_file_path, files, saved, saves,
                   last, has_client, llm_response, direct, runs>>

----------------------------------------------------------------------------
(* LongContextAgent: the task's life *)

\* new_task(): the tools are built; temp_dir and context_file_path are kept
NewTask ==
    /\ phase \in {"created", "ended"}
    /\ phase' = "running"
    /\ saved' = None
    /\ saves' = 0
    /\ last' = NoCall
    /\ UNCHANGED <<temp_dir_exists, context_file_path, files, has_client, llm_response, direct, runs, run>>

\* execute_task(): the control loop returns, then _cleanup_temp_files()
ExecuteTaskReturns ==
    /\ phase = "running"
    /\ phase' = "ended"
    /\ temp_dir_exists' = FALSE
    /\ files' = [p \in {q \in DOMAIN files : q # ContextFile} |-> files[p]]
    /\ last' = NoCall
    /\ UNCHANGED <<context_file_path, saved, saves, has_client, llm_response, direct, runs, run>>

\* execute_task(): the control loop raises, the cleanup line is not reached
ExecuteTaskRaises ==
    /\ phase = "running"
    /\ phase' = "ended"
    /\ last' = NoCall
    /\ UNCHANGED <<temp_dir_exists, context_file_path, files, saved, saves,
                   has_client, llm_response, direct, runs, run>>

\* the completion check sees the first tool call only
FirstCallIsTaskDone(tool_calls) ==
    IF IsNone(tool_calls) THEN FALSE
    ELSE Val(tool_calls) # <<>> /\ Head(Val(tool_calls)).name = "task_done"

\* any(tool_call.name == "task_done" for tool_call in llm_response.tool_calls),
\* False when tool_calls is None
RECURSIVE llm_indicates_task_completed(_)
llm_indicates_task_completed(tool_calls) ==
    IF IsNone(tool_calls) THEN FALSE
    ELSE IF Val(tool_calls) = <<>> THEN FALSE
    ELSE IF Head(Val(tool_calls)).name = "task_done" THEN TRUE
    ELSE llm_indicates_task_completed(Some(Tail(Val(tool_calls))))

\* no response of the model has been judged yet
NoResponse == [tool_calls |-> None, completed |-> FALSE]

MaxRuns == 2

\* the invocations of one EnhancedChunkTool instance that may be in flight
RunIds == 1..MaxRuns

\* no invocation is in flight
NoRuns == [id \in RunIds |-> NoRun]

\* no tool method has been called directly
NoDirect ==
    [op |-> "none", input |-> None, resp |-> LLMNoResponse, output |-> None,
     result |-> OkResult(<<>>), model_calls |-> 0, chunk_text |-> None]

\* the control loop receives a response with tool_calls and asks the agent
\* whether it completes the task
LlmResponse(tool_calls) ==
    /\ phase = "running"
    /\ run.pc = "idle"
    /\ llm_response' = [tool_calls |-> tool_calls,
                        completed |-> llm_indicates_task_completed(tool_calls)]
    /\ UNCHANGED <<phase, temp_dir_exists, context_file_path, files, saved,
                   saves, last, has_client, run, direct, runs>>

----------------------------------------------------------------------------
(* Inputs of the context store *)

TextAlphabet == {"a", " ", "\n", "\r"}

Texts(n) == UNION {[1..k -> TextAlphabet] : k \in 1..n}

\* a text of n plain characters
PlainText(n) == [i \in 1..n |-> "a"]

\* "Hello world!\nThis is line 2.\nFinal line.", a character per token
SampleText ==
    <<"H", "e", "l", "l", "o", " ", "w", "o", "r", "l",
      "d", "!", "\n", "T", "h", "i", "s", " ", "i", "s",
      " ", "l", "i", "n", "e", " ", "2", ".", "\n", "F",
      "i", "n", "a", "l", " ", "l", "i", "n", "e", ".">>

\* absent, empty, every text up to MaxTextLen, longer plain texts and the
\* three-line sample
ContextInputs ==
    {None, Some(<<>>)} \cup {Some(t) : t \in Texts(MaxTextLen)}
    \cup {Some(PlainText(n)) : n \in 1..MaxPlainLen}
    \cup {Some(SampleText)}

ChunkSizeInputs == {None} \cup {Some(n) : n \in 1..MaxChunk}
OverlapInputs == {None} \cup {Some(n) : n \in 0..MaxChunk}

Init ==
    /\ phase = "created"
    /\ temp_dir_exists = TRUE
    /\ context_file_path = None
    /\ files = [p \in {} |-> <<>>]
    /\ saved = None
    /\ saves = 0
    /\ last = NoCall
    /\ has_client = TRUE
    /\ run = NoRun
    /\ llm_response = NoResponse
    /\ direct = NoDirect
    /\ runs = NoRuns

Next ==
    \/ NewTask
    \/ ExecuteTaskReturns
    \/ ExecuteTaskRaises
    \/ \E context \in ContextInputs : SaveContext(context)
    \/ \E cs \in ChunkSizeInputs, ov \in OverlapInputs : GetChunkInfo(cs, ov)
    \/ \E cs \in {None, Some(MaxChunk)}, ov \in {None, Some(0)} : PlanChunks(cs, ov)

Spec == Init /\ [][Next]_vars

----------------------------------------------------------------------------
(* The agent and its control loop *)

MaxToolCalls == 3

\* names of the tools of LongContextAgentToolNames
ToolNames == {"task_done", "bash", "enhanced_chunk_tool"}

ToolCall(name) == [name |-> name]

\* LLMResponse.tool_calls: None, or a list of up to MaxToolCalls tool calls
ToolCallInputs ==
    {None} \cup
    {Some(calls) : calls \in UNION {[1..k -> {ToolCall(n) : n \in ToolNames}] :
                                        k \in 0..MaxToolCalls}}

NextAgent ==
    \/ NewTask
    \/ \E tool_calls \in ToolCallInputs : LlmResponse(tool_calls)
    \/ ExecuteTaskReturns
    \/ ExecuteTaskRaises

SpecAgent == Init /\ [][NextAgent]_vars

----------------------------------------------------------------------------
(* Direct calls of the tools and of the orchestrator's two parsers *)

\* tool._extract_enhanced_prompt(meta_output)
ExtractCall(meta_output) ==
    /\ phase = "running"
    /\ direct.op = "none"
    /\ direct' = [NoDirect EXCEPT
                     !.op = "_extract_enhanced_prompt",
                     !.input = Some(meta_output),
                     !.output = Some(ExtractEnhancedPrompt(meta_output))]
    /\ UNCHANGED <<phase, temp_dir_exists, context_file_path, files, saved,
                   saves, last, has_client, run, llm_response, runs>>

\* tool._clean_chunk_output(chunk_output, chunk_id, start_pos, end_pos)
CleanCall(chunk_output, chunk_id, start_pos, end_pos) ==
    /\ phase = "running"
    /\ direct.op = "none"
    /\ direct' = [NoDirect EXCEPT
                     !.op = "_clean_chunk_output",
                     !.input = Some(chunk_output),
                     !.output = Some(CleanChunkOutput(chunk_output, chunk_id,
                                                      start_pos, end_pos))]
    /\ UNCHANGED <<phase, temp_dir_exists, context_file_path, files, saved,
                   saves, last, has_client, run, llm_response, runs>>

\* MetaPromptTool(llm_client).execute({"simple_prompt": simple_prompt})
MetaCall(simple_prompt, resp) ==
    /\ phase = "running"
    /\ direct.op = "none"
    /\ LET m == MetaExecute(simple_prompt, <<>>, has_client, resp)
       IN  direct' = [NoDirect EXCEPT
                         !.op = "meta_prompt_tool",
                         !.input = simple_prompt,
                         !.resp = resp,
                         !.result = m.result,
                         !.model_calls = m.model_calls]
    /\ UNCHANGED <<phase, temp_dir_exists, context_file_path, files, saved,
                   saves, last, has_client, run, llm_response, runs>>

\* TextChunkTool(llm_client).execute(a), a with enhanced_prompt for
\* simple_prompt
ChunkCall(a, resp) ==
    /\ phase = "running"
    /\ direct.op = "none"
    /\ LET c == ChunkExecute(a.file_path, a.start_pos, a.end_pos, a.query,
                             a.simple_prompt,
                             IF IsNone(a.chunk_id)
                             THEN DefaultChunkId(a.start_pos, a.end_pos)
                             ELSE Val(a.chunk_id),
                             has_client, resp)
       IN  direct' = [NoDirect EXCEPT
                         !.op = "text_chunk_tool",
                         !.input = Some(a),
                         !.resp = resp,
                         !.result = c.result,
                         !.model_calls = c.model_calls,
                         !.chunk_text = c.chunk_text]
    /\ UNCHANGED <<phase, temp_dir_exists, context_file_path, files, saved,
                   saves, last, has_client, run, llm_response, runs>>

\* the result of the direct call is handed to the caller
DirectReturn ==
    /\ direct.op # "none"
    /\ direct' = NoDirect
    /\ UNCHANGED <<phase, temp_dir_exists, context_file_path, files, saved,
                   saves, last, has_client, run, llm_response, runs>>

----------------------------------------------------------------------------
(* Invocations of one EnhancedChunkTool in flight together: each execute()   *)
(* coroutine may be suspended at its two awaits                             *)

\* the model answers an enhancement request as a function of the request
EnhancerAnswer(simple_prompt, task_context) ==
    LLMContent(<<"f", " ">> \o simple_prompt \o task_context)

\* the model answers a chunk request as a function of the request
ChunkAnswer(enhanced_prompt, chunk_text, query) ==
    LLMContent((IF "s" \in Range(enhanced_prompt) THEN <<"y", " ">> ELSE <<"x", " ">>)
               \o chunk_text)

\* the text TextChunkTool reads for the run r, none when it rejects the call
ChunkTextOf(r) ==
    ChunkExecute(Val(r.args).file_path, Val(r.args).start_pos, Val(r.args).end_pos,
                 Val(r.args).query, r.instruction, r.chunk_id, has_client,
                 LLMNoResponse).chunk_text

\* the answer of the model to the chunk request of the run r
ChunkAnswerFor(r) ==
    IF IsNone(ChunkTextOf(r)) THEN LLMNoResponse
    ELSE ChunkAnswer(Val(r.instruction), Val(ChunkTextOf(r)), Val(Val(r.args).query))

\* the instruction kept on the tool instance, where the invocation that
\* enhanced last (here: the one with the greatest id) has overwritten it
InstructionOnInstance(rs, id) ==
    LET waiting == {k \in DOMAIN rs : rs[k].pc = "chunk"}
    IN  rs[CHOOSE k \in waiting : \A j \in waiting : j <= k].instruction

\* the instruction the invocation id passes to its chunk stage: its own
\* local enhanced_prompt
InstructionOf(rs, id) == rs[id].instruction

ParStart(id, a) ==
    /\ phase = "running"
    /\ runs[id].pc = "idle"
    /\ runs' = [runs EXCEPT ![id] = StartedRun(a)]
    /\ UNCHANGED <<phase, temp_dir_exists, context_file_path, files, saved,
                   saves, last, has_client, run, llm_response, direct>>

ParEnhance(id) ==
    /\ runs[id].pc = "enhance"
    /\ runs' = [runs EXCEPT ![id] =
                   EnhancedRun(runs[id],
                               EnhancerAnswer(Val(Val(runs[id].args).simple_prompt),
                                              Val(runs[id].args).task_context))]
    /\ UNCHANGED <<phase, temp_dir_exists, context_file_path, files, saved,
                   saves, last, has_client, run, llm_response, direct>>

ParChunk(id) ==
    /\ runs[id].pc = "chunk"
    /\ LET r == [runs[id] EXCEPT !.instruction = InstructionOf(runs, id)]
       IN  runs' = [runs EXCEPT ![id] = ChunkedRun(r, ChunkAnswerFor(r))]
    /\ UNCHANGED <<phase, temp_dir_exists, context_file_path, files, saved,
                   saves, last, has_client, run, llm_response, direct>>

ParReturn(id) ==
    /\ runs[id].pc = "done"
    /\ runs' = [runs EXCEPT ![id] = NoRun]
    /\ UNCHANGED <<phase, temp_dir_exists, context_file_path, files, saved,
                   saves, last, has_client, run, llm_response, direct>>

----------------------------------------------------------------------------
(* Inputs of the orchestrator *)

MaxPos == 3
IsolationThreshold == 3

\* the contexts saved before chunk runs: plain, with a line break, blank,
\* with a CRLF, and with a two-byte character
RunContexts ==
    {Some(<<"a", "b", "c">>), Some(<<" ", " ">>), Some(<<"a", "\r", "\n", "b">>),
     Some(<<"U", "a", "b">>)}

MissingFile == "/tmp/missing.txt"

FilePathInputs == {Some(ContextFile), Some(MissingFile)}
StartInputs == {Some(n) : n \in (0 - 1)..MaxPos}
EndInputs == {Some(n) : n \in 0..(MaxPos + 1)}
Query == <<"q", "?">>
SimplePrompt == <<"p">>

\* the optional arguments: both absent, or both given
OptionalInputs == {<<<<>>, None>>, <<<<"t">>, Some(<<"c", "1">>)>>}

\* calls with every required argument present: any file, any range
CompleteArgs ==
    {RunArgs(f, s, e, Some(Query), Some(SimplePrompt), o[1], o[2]) :
        f \in FilePathInputs, s \in StartInputs, e \in EndInputs,
        o \in OptionalInputs}

\* calls on the context file with one required argument absent or empty
IncompleteArgs ==
    LET f == Some(ContextFile)
        s == Some(0)
        e == Some(MaxPos - 1)
        q == Some(Query)
        p == Some(SimplePrompt)
    IN  {RunArgs(None, s, e, q, p, <<>>, None),
         RunArgs(Some(""), s, e, q, p, <<>>, None),
         RunArgs(f, None, e, q, p, <<>>, None),
         RunArgs(f, s, None, q, p, <<>>, None),
         RunArgs(f, s, e, None, p, <<>>, None),
         RunArgs(f, s, e, Some(<<>>), p, <<>>, None),
         RunArgs(f, s, e, q, None, <<>>, None),
         RunArgs(f, s, e, q, Some(<<>>), <<>>, None)}

RunArgInputs == CompleteArgs \cup IncompleteArgs

\* what the model may return for the enhancement: nothing, blank text, short
\* and long prompts, prompts with several lines, with a separator line and
\* with the success marker
EnhancerContents ==
    {<<>>, <<" ">>, <<"w">>, <<"w", " ", "v">>, <<" ", "w", "v", "w", "v", "\n">>,
     <<"w", "v", "\n", "v", "w">>, <<"w", "\n", Separator, "\n", "v">>,
     <<Separator, "\n", "w">>, <<EnhancedMarker, "\n", "w", "v">>}

EnhancerResponses ==
    {LLMRaises, LLMNoResponse} \cup {LLMContent(c) : c \in EnhancerContents}

\* the prefixes of a prompt shorter than n characters
ShortPrefixes(prompt, n) ==
    {SubSeq(prompt, 1, k) : k \in {j \in 1..Len(prompt) : StrLen(SubSeq(prompt, 1, j)) < n}}

\* what the model may return for a chunk: nothing, an analysis of its own,
\* analyses that carry report markers, and analyses that echo the
\* instruction it was given: a short prefix of it, or all of it
ChunkContents(instruction) ==
    {<<>>, <<"x">>, <<"x", "y", "\n", "y">>, <<" ", "x", "\n">>,
     <<"x", "\n", TokensMarker, "y">>, <<"x", "\n", Separator, "\n", "y">>,
     <<AnalysisMarker, "\n", "y">>}
    \cup {<<"x", " ">> \o pre \o <<" ", "y">> :
             pre \in ShortPrefixes(instruction, IsolationThreshold)}
    \cup {<<"x", " ">> \o instruction}

ChunkResponses(instruction) ==
    {LLMRaises, LLMNoResponse} \cup {LLMContent(c) : c \in ChunkContents(instruction)}

\* the tool is built with or without a model client
InitRun ==
    /\ phase = "created"
    /\ temp_dir_exists = TRUE
    /\ context_file_path = None
    /\ files = [p \in {} |-> <<>>]
    /\ saved = None
    /\ saves = 0
    /\ last = NoCall
    /\ has_client \in BOOLEAN
    /\ run = NoRun
    /\ llm_response = NoResponse
    /\ direct = NoDirect
    /\ runs = NoRuns

NextRun ==
    \/ NewTask
    \/ \E context \in RunContexts : SaveContext(context)
    \/ \E a \in RunArgInputs : RunStart(a)
    \/ \E resp \in EnhancerResponses : EnhanceStep(resp)
    \/ /\ run.pc = "chunk"
       /\ \E resp \in ChunkResponses(Val(run.instruction)) : ChunkStep(resp)
    \/ RunReturn

SpecRun == InitRun /\ [][NextRun]_vars

----------------------------------------------------------------------------
(* Inputs of the invocations in flight together *)

ParPrompts == {<<"p">>, <<"r", "r">>, <<"s">>}
ParRanges == {<<0, 2>>, <<1, 3>>}

ParArgs ==
    {RunArgs(Some(ContextFile), Some(r[1]), Some(r[2]), Some(Query), Some(p),
             <<>>, None) : r \in ParRanges, p \in ParPrompts}

\* no invocation is in flight
AllIdle == \A id \in RunIds : runs[id].pc = "idle"

NextPar ==
    \/ NewTask
    \/ AllIdle /\ \E context \in RunContexts : SaveContext(context)
    \/ \E id \in RunIds, a \in ParArgs : ParStart(id, a)
    \/ \E id \in RunIds : ParEnhance(id)
    \/ \E id \in RunIds : ParChunk(id)
    \/ \E id \in RunIds : ParReturn(id)

SpecPar == InitRun /\ [][NextPar]_vars

----------------------------------------------------------------------------
(* Inputs of the direct calls *)

MaxParseLen == 3

\* what the texts given to the parsers are made of: words, blanks, line
\* breaks and the markers the parsers look for
ParseAlphabet ==
    {"w", " ", "\n", Separator, EnhancedMarker, "Enhanced Prompt: ",
     AnalysisMarker, ResultTitle, TokensMarker}

\* every text of up to MaxParseLen tokens, the empty string included
ParseInputs == UNION {[1..k -> ParseAlphabet] : k \in 0..MaxParseLen}

\* the simple_prompt argument: absent, empty, or given
SimplePromptInputs == {None, Some(<<>>), Some(SimplePrompt)}

\* what the model may return to a direct call
DirectResponses ==
    {LLMRaises, LLMNoResponse, LLMContent(<<>>), LLMContent(<<" ">>),
     LLMContent(<<"x", "\n", "y">>)}

\* the task runs and no direct call is under way
CanCall == phase = "running" /\ direct.op = "none"

NextTools ==
    \/ NewTask
    \/ direct.op = "none" /\ \E context \in RunContexts : SaveContext(context)
    \/ CanCall /\ \E meta_output \in ParseInputs : ExtractCall(meta_output)
    \/ CanCall /\ \E chunk_output \in ParseInputs :
                      CleanCall(chunk_output, <<"c", "1">>, 0, 2)
    \/ CanCall /\ \E p \in SimplePromptInputs, resp \in DirectResponses :
                      MetaCall(p, resp)
    \/ CanCall /\ \E a \in RunArgInputs, resp \in DirectResponses :
                      ChunkCall(a, resp)
    \/ DirectReturn

SpecTools == InitRun /\ [][NextTools]_vars

----------------------------------------------------------------------------
(* Claims about the context store, checked under Spec *)

\* the latest call is a successful get_chunk_info with chunk_size > 0 and
\* 0 <= overlap < chunk_size
ChunkInfoDone ==
    /\ last.op = "get_chunk_info"
    /\ IsOk(last.result)
    /\ Val(last.chunk_size) > 0
    /\ 0 <= Val(last.overlap)
    /\ Val(last.overlap) < Val(last.chunk_size)

\* the ranges [start, end) of bs, in order, cover [0, total) with no gap and
\* the last one ends at total
CoversText(bs, total) ==
    /\ bs # <<>>
    /\ bs[1][1] = 0
    /\ \A i \in 1..(Len(bs) - 1) : bs[i + 1][1] <= bs[i][2]
    /\ bs[Len(bs)][2] = total

\* C5: for every saved context and every valid (chunk_size, overlap), the
\* boundary list of get_chunk_info covers [0, total_size) with no gaps and its
\* last boundary ends at total_size.
C5_BoundariesCoverText ==
    ChunkInfoDone => CoversText(last.boundaries, last.total_size)

\* ceil(a / b) for b > 0
CeilDiv(a, b) == 0 - ((0 - a) \div b)

\* C6: for every (total_size, chunk_size, overlap) with overlap < chunk_size
\* the number of chunks of get_chunk_info is
\* max(1, ceil((total_size - overlap) / (chunk_size - overlap))).
C6_ChunkCountIsCeiling ==
    ChunkInfoDone =>
        last.num_chunks =
            Max(1, CeilDiv(last.total_size - Val(last.overlap),
                           Val(last.chunk_size) - Val(last.overlap)))

NoContextMessage ==
    <<"No context file found. Please save context first using 'save_context' action.">>

\* C7: get_chunk_info (with overlap < chunk_size, on a store whose reference
\* is the task's own) fails with the no-context error when no save has
\* succeeded before it, and succeeds when one has, reporting a total size
\* equal to the length of the most recently saved text.
C7_ChunkInfoNeedsSave ==
    ( /\ last.op = "get_chunk_info"
      /\ Val(last.overlap) < Val(last.chunk_size)
      /\ (IsNone(saved) <=> IsNone(context_file_path)) )
    => IF IsNone(saved)
       THEN last.result = ErrResult(NoContextMessage, 1)
       ELSE /\ IsOk(last.result)
            /\ last.total_size = StrLen(Val(saved))

\* C8: reading the stored resource right after a successful save(text)
\* returns content identical to text.
C8_SaveReadRoundTrip ==
    (last.op = "save_context" /\ IsOk(last.result))
    => /\ PathExists(ContextFile)
       /\ ReadText(files[ContextFile]) = Val(last.context)

\* C9: while a task runs, after its successful saves there is exactly one
\* stored context, the file holds the text of the most recent save alone, and
\* context_file_path names that file.
C9_OneContextOverwritten ==
    (phase = "running" /\ ~IsNone(saved))
    => /\ Cardinality(DOMAIN files) = 1
       /\ \A p \in DOMAIN files :
              /\ Utf8Valid(files[p])
              /\ Utf8Decode(files[p]) = Val(saved)
              /\ context_file_path = Some(p)

\* a second save of the task has replaced a different, longer text
C9_Witness ==
    /\ phase = "running"
    /\ saves >= 2
    /\ last.op = "save_context"
    /\ IsOk(last.result)
    /\ saved = Some(<<"a">>)
    /\ PathExists(ContextFile)
    /\ Len(files[ContextFile]) = 1

MissingContext(context) == IsNone(context) \/ Val(context) = <<>>

\* C10: a save with empty or absent text fails with error code 1 and changes
\* nothing: no file is created or overwritten and context_file_path keeps its
\* value.
C10_EmptySaveChangesNothing ==
    [][ ( /\ last' # last
          /\ last'.op = "save_context"
          /\ MissingContext(last'.context) )
        => /\ last'.result = ErrResult(
                  <<"Context text is required for save_context action">>, 1)
           /\ files' = files
           /\ context_file_path' = context_file_path ]_vars

\* an empty save was refused after an earlier save of the task had succeeded
C10_Witness ==
    /\ last.op = "save_context"
    /\ MissingContext(last.context)
    /\ ~IsOk(last.result)
    /\ saves >= 1
    /\ PathExists(ContextFile)

\* a successful save_context call is the latest call of the store
SaveDone == last.op = "save_context" /\ IsOk(last.result)

\* the figures of the report of a save: characters, lines, words, tokens
ReportedStatistics(report) == <<report[9], report[13], report[16], report[19]>>

\* the words of text: the positions where a run of non-whitespace begins
WordStarts(text) ==
    {i \in 1..Len(text) :
        /\ ~IsSpace(text[i])
        /\ (i = 1 \/ IsSpace(text[i - 1]))}

\* C11: for every non-empty text, the report of a successful save gives
\* characters = length of the text, lines = number of newline characters + 1,
\* words = number of whitespace-delimited tokens, estimated tokens =
\* characters integer-divided by 4.
C11_SaveStatistics ==
    SaveDone =>
        LET text == Val(last.context)
        IN  ReportedStatistics(Val(last.result.output)) =
                <<ToString(Len(text)),
                  ToString(Cardinality({i \in 1..Len(text) : text[i] = "\n"}) + 1),
                  ToString(Cardinality(WordStarts(text))),
                  ToString(Len(text) \div 4)>>

\* a text of two lines, whose second line is blank, was saved
C11_Witness ==
    /\ SaveDone
    /\ last.context = Some(<<"a", "\n">>)
    /\ ReportedStatistics(Val(last.result.output)) = <<"2", "2", "1", "0">>

\* C12 as stated: saving "Hello world!\nThis is line 2.\nFinal line." reports
\* 3 lines, 8 words and 41 characters.
C12_SampleStatisticsAsStated ==
    (SaveDone /\ last.context = Some(SampleText))
    => LET report == Val(last.result.output)
       IN  /\ report[13] = "3"
           /\ report[16] = "8"
           /\ report[9] = "41"

\* C12 amended: saving "Hello world!\nThis is line 2.\nFinal line." reports
\* 3 lines, 8 words and 40 characters, the length of the text.
C12_SampleStatistics ==
    (SaveDone /\ last.context = Some(SampleText))
    => LET report == Val(last.result.output)
       IN  /\ report[13] = "3"
           /\ report[16] = "8"
           /\ report[9] = "40"

\* the sample was saved
C12_Witness ==
    /\ SaveDone
    /\ last.context = Some(SampleText)
    /\ files[ContextFile] = SampleText

\* C13: once a task's execution has ended, whether the control loop returned
\* (with success or failure) or raised, the workspace directory and the
\* stored context in it no longer exist.
C13_WorkspaceTornDown ==
    phase = "ended" => (~temp_dir_exists /\ ~PathExists(ContextFile))

\* C14: every task started by new_task, a further task on the same agent
\* after an earlier one has ended included, has its workspace directory from
\* its start until its end.
C14_WorkspaceDuringTask ==
    phase = "running" => temp_dir_exists

\* C26: the boundary get_chunk_info lists at index i (from 0) is
\* [i*(chunk_size-overlap), min(i*(chunk_size-overlap)+chunk_size, total_size)),
\* and no boundary is listed after one whose end >= total_size.
C26_BoundaryFormula ==
    (last.op = "get_chunk_info" /\ IsOk(last.result))
    => LET bs == last.boundaries
           step == Val(last.chunk_size) - Val(last.overlap)
       IN  /\ \A k \in 1..Len(bs) :
                  /\ bs[k][1] = (k - 1) * step
                  /\ bs[k][2] = Min((k - 1) * step + Val(last.chunk_size),
                                    last.total_size)
           /\ \A k \in 1..(Len(bs) - 1) : bs[k][2] < last.total_size

\* get_chunk_info listed two overlapping boundaries, the second to the end
C26_Witness ==
    /\ last.op = "get_chunk_info"
    /\ IsOk(last.result)
    /\ last.boundaries = << <<0, 2>>, <<1, 3>> >>

----------------------------------------------------------------------------
(* Claims about the agent, checked under SpecAgent *)

\* C15: llm_indicates_task_completed returns true exactly when the list of
\* tool calls of the response is present and holds a call named "task_done";
\* false for an absent list, an empty list and a list of other names.
C15_CompletionDetection ==
    llm_response.completed <=>
        /\ ~IsNone(llm_response.tool_calls)
        /\ \E i \in 1..Len(Val(llm_response.tool_calls)) :
               Val(llm_response.tool_calls)[i].name = "task_done"

\* a response whose second tool call is task_done was judged complete
C15_Witness ==
    /\ llm_response.completed
    /\ llm_response.tool_calls = Some(<<ToolCall("bash"), ToolCall("task_done")>>)

----------------------------------------------------------------------------
(* Claims about the orchestrator, checked under SpecRun *)

RunDone == run.pc = "done"
RunSucceeded == RunDone /\ IsOk(Val(run.result))
RunOutput == Val(Val(run.result).output)

\* some fragment of text with at least n characters occurs in other
SharesFragment(text, other, n) ==
    \E i \in 1..Len(text) : \E j \in i..Len(text) :
        /\ StrLen(SubSeq(text, i, j)) >= n
        /\ Contains(SubSeq(text, i, j), other)

EnhancementFailed == ~IsNone(run.meta_result) /\ ~IsOk(Val(run.meta_result))

\* C2: the chunk stage is invoked only after the enhancement stage has
\* succeeded; if enhancement fails the chunk stage is never invoked and the
\* run returns the enhancement failure.
C2_ChunkAfterEnhancement ==
    /\ (run.pc = "chunk" \/ run.chunk_calls > 0)
       => /\ run.meta_calls = 1
          /\ ~IsNone(run.meta_result)
          /\ IsOk(Val(run.meta_result))
    /\ EnhancementFailed
       => /\ run.chunk_calls = 0
          /\ IsNone(run.chunk_result)
          /\ RunDone
          /\ run.result = Some(ErrResult(
                 <<"Internal prompt enhancement failed: ">>
                 \o Val(Val(run.meta_result).error), 1))

\* the model raised during enhancement and the run ended without a chunk call
C2_Witness ==
    /\ EnhancementFailed
    /\ run.model_calls = 1
    /\ RunDone
    /\ run.chunk_calls = 0
    /\ PathExists(ContextFile)

ValidationMessages ==
    {"Required parameters: file_path, start_pos, end_pos, query, simple_prompt",
     "Required parameters: file_path, start_pos, end_pos, query, enhanced_prompt",
     "simple_prompt is required",
     "Invalid position range: start_pos must be >= 0 and end_pos must be > start_pos",
     "File not found: ",
     "No content found in range "}

\* the run failed with a validation error
FailedValidation ==
    /\ RunDone
    /\ ~IsOk(Val(run.result))
    /\ Range(Val(Val(run.result).error)) \cap ValidationMessages # {}

\* C3: a run that fails with a validation error (missing input, invalid
\* range, file not found, empty chunk) has issued no model call.
C3_ValidationBeforeModelCall == FailedValidation => run.model_calls = 0

\* C4: a run on a tool built without a model client fails with the
\* client-not-available error and makes no enhancement call, no chunk call and
\* no model call, whatever the arguments.
C4_NoClientNoCalls ==
    (~has_client /\ run.pc # "idle")
    => /\ RunDone
       /\ run.result = Some(ErrResult(
              <<"LLM client not available for enhanced_chunk_tool">>, 1))
       /\ run.meta_calls = 0
       /\ run.chunk_calls = 0
       /\ run.model_calls = 0

\* a complete call on a saved context was refused for want of a client
C4_Witness ==
    /\ ~has_client
    /\ RunDone
    /\ PathExists(ContextFile)
    /\ ~MissingRequired(Val(run.args).file_path, Val(run.args).start_pos,
                        Val(run.args).end_pos, Val(run.args).query,
                        Val(run.args).simple_prompt)
    /\ Val(Val(run.args).start_pos) >= 0
    /\ Val(Val(run.args).end_pos) > Val(Val(run.args).start_pos)

\* the run ended with the failure of its enhancement stage
EnhancementStageFailed ==
    RunDone /\ ~IsNone(run.meta_result) /\ ~IsOk(Val(run.meta_result))

\* the run ended with the failure of its chunk stage
ChunkStageFailed ==
    RunDone /\ ~IsNone(run.chunk_result) /\ ~IsOk(Val(run.chunk_result))

\* C16: when a stage of a run fails, the failure the run returns carries the
\* error code of that stage's error: the code of MetaPromptTool's error for
\* the enhancement stage, the code of TextChunkTool's error for the chunk
\* stage.
C16_StageErrorCodeKept ==
    /\ EnhancementStageFailed =>
           /\ ~IsOk(Val(run.result))
           /\ Val(run.result).error_code = Val(run.meta_result).error_code
    /\ ChunkStageFailed =>
           /\ ~IsOk(Val(run.result))
           /\ Val(run.result).error_code = Val(run.chunk_result).error_code

\* a run whose chunk stage failed on a missing file returned a failure
C16_Witness ==
    /\ ChunkStageFailed
    /\ Val(run.chunk_result).error = Some(<<"File not found: ", MissingFile>>)
    /\ Val(run.result).error_code = 1

\* TextChunkTool.execute was called by the run, with every required argument
\* present
ChunkCalled ==
    /\ RunDone
    /\ ~IsNone(run.chunk_result)
    /\ Val(run.instruction) # <<>>

ArgStart == Val(Val(run.args).start_pos)
ArgEnd == Val(Val(run.args).end_pos)
ArgPath == Val(Val(run.args).file_path)

\* the characters at offsets [start, end) of text
Slice(text, start, end) == SubSeq(text, start + 1, Min(end, Len(text)))

IsBlank(text) == \A i \in 1..Len(text) : IsSpace(text[i])

\* the call returned the error msg and no analysis
ChunkRejected(msg) ==
    /\ Val(run.chunk_result) = ErrResult(msg, 1)
    /\ IsNone(run.content)

\* C17: TextChunkTool.execute with every required argument present (on a
\* tool with a model client) returns the invalid-range error when
\* start < 0 or end <= start, on any file; otherwise the file-not-found error
\* when the path does not exist; otherwise the empty-chunk error when the
\* content of the range is blank; each as an error result with no analysis.
C17_ChunkInputClassified ==
    ChunkCalled =>
        IF ArgStart < 0 \/ ArgEnd <= ArgStart
        THEN ChunkRejected(<<"Invalid position range: start_pos must be >= 0 and end_pos must be > start_pos">>)
        ELSE IF ~PathExists(ArgPath)
        THEN ChunkRejected(<<"File not found: ", ArgPath>>)
        ELSE (ArgPath = ContextFile /\ ~IsNone(saved)
              /\ IsBlank(Slice(Val(saved), ArgStart, ArgEnd)))
             => ChunkRejected(<<"No content found in range ", ToString(ArgStart),
                                ":", ToString(ArgEnd)>>)

\* C18: a chunk request on the stored context whose end exceeds the length of
\* the context is a caller error and is never clamped: TextChunkTool.execute,
\* and the run, do not return a successful analysis of a shortened slice.
C18_EndBeyondTextRejected ==
    ( /\ ChunkCalled
      /\ ArgPath = ContextFile
      /\ PathExists(ContextFile)
      /\ ArgEnd > Len(files[ContextFile]) )
    => /\ ~IsOk(Val(run.chunk_result))
       /\ ~RunSucceeded

\* the size the report of TextChunkTool gives for the chunk
ReportedChunkSize(report) ==
    report[(CHOOSE i \in 1..Len(report) : report[i] = "**Chunk Size:** ") + 1]

\* C19: for every stored text and every range 0 <= start < end within it,
\* the chunk text TextChunkTool.execute sends to the model is exactly the
\* characters at offsets [start, end) of the stored text, and the chunk size
\* it reports is the length of that slice.
C19_ChunkIsExactSlice ==
    ( /\ ChunkCalled
      /\ ArgPath = ContextFile
      /\ ~IsNone(saved)
      /\ 0 <= ArgStart /\ ArgStart < ArgEnd /\ ArgEnd <= Len(Val(saved))
      /\ Val(run.chunk_result).error
             # Some(<<"No content found in range ", ToString(ArgStart), ":",
                      ToString(ArgEnd)>>) )
    => /\ run.chunk_text = Some(Slice(Val(saved), ArgStart, ArgEnd))
       /\ IsOk(Val(run.chunk_result)) =>
              ReportedChunkSize(Val(Val(run.chunk_result).output))
                  = ToString(ArgEnd - ArgStart)

\* a required argument of the run is absent or empty
MissingRunInput(a) ==
    \/ IsNone(a.file_path) \/ Val(a.file_path) = ""
    \/ IsNone(a.start_pos)
    \/ IsNone(a.end_pos)
    \/ IsNone(a.query) \/ Val(a.query) = <<>>
    \/ IsNone(a.simple_prompt) \/ Val(a.simple_prompt) = <<>>

MissingInputError ==
    ErrResult(<<"Required parameters: file_path, start_pos, end_pos, query, simple_prompt">>, 1)

TokenAccounting == {TokensMarker, " ~", " input + ~", " output"}

\* C21: for any analysis text the chunk model returns, the value a
\* successful run returns holds none of TextChunkTool's processing metadata:
\* no '**Tokens Used:**' line, no '**Processing Status:**' line, no token
\* accounting.
C21_NoProcessingMetadata ==
    RunSucceeded =>
        /\ StatusMarker \notin Range(RunOutput)
        /\ Range(RunOutput) \cap TokenAccounting = {}

\* a run succeeded on an analysis that itself carried a token-usage line
C21_Witness ==
    /\ RunSucceeded
    /\ ~IsNone(run.content)
    /\ TokensMarker \in Range(Val(run.content))

\* the Analysis section of a clean result: what lies between the
\* '**Analysis:**' line and the closing status line
AnalysisSection(output) ==
    LET i == CHOOSE k \in 1..Len(output) : output[k] = "**Analysis:**"
    IN  SubSeq(output, i + 2, Len(output) - 3)

\* C22: for every analysis text A the chunk model returns, the Analysis
\* section of the clean result of the run is the whole of A,
\* whitespace-trimmed, with no line of A dropped.
C22_AnalysisPreserved ==
    (RunSucceeded /\ ~IsNone(run.content))
    => AnalysisSection(RunOutput) = Strip(Val(run.content))

\* the enhancement stage of the run has succeeded
EnhancementSucceeded ==
    /\ run.pc \in {"chunk", "done"}
    /\ ~IsNone(run.meta_result)
    /\ IsOk(Val(run.meta_result))

\* C25: for every enhanced text E that MetaPromptTool produces, the
\* extraction applied to its formatted report of E yields exactly E: the
\* instruction passed to TextChunkTool is the complete enhanced prompt.
C25_ExtractionRecoversPrompt ==
    EnhancementSucceeded => run.instruction = run.enhanced

\* the size the clean result of the run gives for the chunk
ReportedSize(output) ==
    output[(CHOOSE i \in 1..Len(output) : output[i] = "**Size:** ") + 1]

\* C29: in every successful result of a run, the reported size (end - start)
\* is the number of characters of the slice TextChunkTool read and analysed,
\* the chunk size TextChunkTool itself reported.
C29_ReportedSizeIsSliceLength ==
    RunSucceeded =>
        /\ ReportedSize(RunOutput) = ToString(StrLen(Val(run.chunk_text)))
        /\ ReportedSize(RunOutput)
               = ReportedChunkSize(Val(Val(run.chunk_result).output))

\* C30: whenever the enhancement stage of a run succeeds, the instruction
\* extracted and passed to TextChunkTool is non-empty, and the chunk stage
\* does not fail its required-parameter check.
C30_InstructionNonEmpty ==
    EnhancementSucceeded =>
        /\ Val(run.instruction) # <<>>
        /\ (~IsNone(run.chunk_result)) =>
               Val(run.chunk_result).error #
                   Some(<<"Required parameters: file_path, start_pos, end_pos, query, enhanced_prompt">>)

----------------------------------------------------------------------------
(* Claims about the tools called directly, checked under SpecTools *)

\* the tokens _extract_enhanced_prompt looks for
StructureTokens == {Separator, EnhancedMarker, "Enhanced Prompt: "}

\* the text has no marker, no marker prefix and no separator
NoStructure(text) == Range(text) \cap StructureTokens = {}

\* a string: a finite sequence of tokens
IsString(v) == DOMAIN v = 1..Len(v)

RespRaised == direct.resp.kind = "raises"
RespEmpty == direct.resp.kind = "none" \/ direct.resp.content = <<>>

\* C24: in MetaPromptTool.execute and TextChunkTool.execute, once the
\* validation has passed exactly one model call is issued; if it raises the
\* tool returns an error result whose message names the cause; if it returns
\* no response or empty content the tool returns its empty-response error;
\* MetaPromptTool reports an empty simple_prompt as missing input even when
\* it has no client.
C24_BackendErrors ==
    /\ direct.op = "meta_prompt_tool" =>
           IF IsNone(direct.input) \/ Val(direct.input) = <<>>
           THEN /\ direct.result = ErrResult(<<"simple_prompt is required">>, 1)
                /\ direct.model_calls = 0
           ELSE IF ~has_client
           THEN /\ direct.result =
                       ErrResult(<<"LLM client not available for meta_prompt_tool">>, 1)
                /\ direct.model_calls = 0
           ELSE /\ direct.model_calls = 1
                /\ RespRaised => direct.result =
                       ErrResult(<<"Error generating meta prompt: ", ExceptionText>>, 1)
                /\ (~RespRaised /\ RespEmpty) => direct.result =
                       ErrResult(<<"Failed to generate enhanced prompt">>, 1)
                /\ (~RespRaised /\ ~RespEmpty) => IsOk(direct.result)
    /\ (direct.op = "text_chunk_tool" /\ ~IsNone(direct.chunk_text)) =>
           /\ direct.model_calls = 1
           /\ RespRaised => direct.result =
                  ErrResult(<<"Error processing text chunk: ", ExceptionText>>, 1)
           /\ (~RespRaised /\ RespEmpty) => direct.result =
                  ErrResult(<<"Failed to process text chunk">>, 1)
           /\ (~RespRaised /\ ~RespEmpty) => IsOk(direct.result)
    /\ (direct.op = "text_chunk_tool" /\ IsNone(direct.chunk_text)) =>
           /\ direct.model_calls = 0
           /\ ~IsOk(direct.result)

\* MetaPromptTool without a client was given an empty simple_prompt
C24_Witness ==
    /\ direct.op = "meta_prompt_tool"
    /\ ~has_client
    /\ direct.input = Some(<<>>)
    /\ direct.result = ErrResult(<<"simple_prompt is required">>, 1)

----------------------------------------------------------------------------
(* Claims about invocations in flight together, checked under SpecPar *)

\* the invocation with arguments a executed alone, from start to return
AloneRun(a) ==
    LET r1 == StartedRun(a)
    IN  IF r1.pc = "done" THEN r1
        ELSE LET r2 == EnhancedRun(r1, EnhancerAnswer(Val(a.simple_prompt),
                                                       a.task_context))
             IN  IF r2.pc = "done" THEN r2
                 ELSE ChunkedRun(r2, ChunkAnswerFor(r2))

\* C27: for any interleaving of the invocations of one tool instance on the
\* same stored context, with no save in flight and a model that answers each
\* request as a function of the request, every invocation passes to its chunk
\* stage the instruction extracted from its own enhancement, reads its own
\* slice and returns what it returns when executed alone.
C27_RunsIndependent ==
    \A id \in RunIds :
        /\ runs[id].pc = "chunk" =>
               runs[id].instruction =
                   Some(ExtractEnhancedPrompt(Val(Val(runs[id].meta_result).output)))
        /\ runs[id].pc = "done" =>
               runs[id] = AloneRun(Val(runs[id].args))

\* two invocations with different prompts and ranges were in flight together
\* and the first has returned its analysis while the second waits
C27_Witness ==
    /\ runs[1].pc = "done"
    /\ IsOk(Val(runs[1].result))
    /\ runs[2].pc = "chunk"
    /\ runs[1].instruction # runs[2].instruction
    /\ Val(runs[1].args).start_pos # Val(runs[2].args).start_pos

\* the invocation succeeded
Succeeded(r) == r.pc = "done" /\ IsOk(Val(r.result))

\* C28: the value a successful invocation returns is determined by chunk_id,
\* start, end and TextChunkTool's report: two invocations that differ in
\* simple_prompt, task_context or the enhanced text but have equal reports
\* (and equal chunk_id, start and end) return identical values.
C28_PromptDoesNotInterfere ==
    \A i \in RunIds, j \in RunIds :
        ( /\ Succeeded(runs[i]) /\ Succeeded(runs[j])
          /\ runs[i].chunk_id = runs[j].chunk_id
          /\ Val(runs[i].args).start_pos = Val(runs[j].args).start_pos
          /\ Val(runs[i].args).end_pos = Val(runs[j].args).end_pos
          /\ runs[i].chunk_result = runs[j].chunk_result )
        => runs[i].result = runs[j].result

\* two invocations with enhanced prompts of different lengths got equal
\* reports and succeeded
C28_Witness ==
    /\ Succeeded(runs[1]) /\ Succeeded(runs[2])
    /\ Len(Val(runs[1].instruction)) # Len(Val(runs[2].instruction))
    /\ runs[1].chunk_result = runs[2].chunk_result

====
